---- MODULE Spec2Model ----
(***************************************************************************)
(* The command-history engine of lab 6: a key-binding table of reversible  *)
(* commands, the history / undo_stack pair, the class-wide text buffer of  *)
(* PrintCharCommand, and the memento codec (from_keyboard / load_state).   *)
(*                                                                         *)
(* Python objects are modelled by a heap: a function from object ids to    *)
(* [cls, dict] records; a reference is an id, and None is the id 0.  An    *)
(* object that nothing references any more is removed from the heap at the *)
(* end of the handler that dropped it (reference counting).                *)
(* Strings returned by the handlers are sequences of string fragments;     *)
(* the text buffer is a sequence of one-character strings.                 *)
(***************************************************************************)
EXTENDS Integers, Sequences, FiniteSets, TLC

VARIABLES
    text,          \* PrintCharCommand.text (class attribute)
    heap,          \* the live Command instances, by object id
    key_bindings,  \* VirtualKeyboard.key_bindings, an insertion-ordered dict
    history,       \* VirtualKeyboard.history: list of {"key", "command"}
    undo_stack,    \* VirtualKeyboard.undo_stack: list of {"key", "command"}
    file,          \* the content of the snapshot file on disk
    result,        \* what the last call returned (or raised)
    last           \* the last call: [op, key]

vars == <<text, heap, key_bindings, history, undo_stack, file, result, last>>

----------------------------------------------------------------------------
(* Bounds of the model *)

\* most entries history and undo_stack hold together
MaxHist == 3

\* most entries the history holds where snapshots are saved and loaded
MaxStack == 2

----------------------------------------------------------------------------
(* Values *)

None == 0

DefaultAmount == 20
DefaultVolume == 50

\* the outcome of a call that raised an exception the handler does not catch
Raised(exc) == <<"raise ", exc>>

TypeError == [exception |-> "TypeError"]

\* len(key) of press_key's test
KeyLen(key) == Len(key)

----------------------------------------------------------------------------
(* The Command classes *)

PrintCharCommand(char) ==
    [cls |-> "PrintCharCommand", dict |-> [char |-> char]]

VolumeUpCommand(amount, current_volume) ==
    [cls |-> "VolumeUpCommand",
     dict |-> [amount |-> amount, current_volume |-> current_volume]]

VolumeDownCommand(amount, current_volume) ==
    [cls |-> "VolumeDownCommand",
     dict |-> [amount |-> amount, current_volume |-> current_volume]]

MediaPlayerCommand(is_playing) ==
    [cls |-> "MediaPlayerCommand", dict |-> [is_playing |-> is_playing]]

\* Command.__subclasses__(), by name
class_names ==
    {"PrintCharCommand", "VolumeUpCommand", "VolumeDownCommand", "MediaPlayerCommand"}

\* the parameters of each constructor and those without a default
Params(cls) ==
    CASE cls = "PrintCharCommand"   -> {"char"}
      [] cls = "VolumeUpCommand"    -> {"amount", "current_volume"}
      [] cls = "VolumeDownCommand"  -> {"amount", "current_volume"}
      [] cls = "MediaPlayerCommand" -> {"is_playing"}

Required(cls) ==
    IF cls = "PrintCharCommand" THEN {"char"} ELSE {}

Arg(kw, name, default) == IF name \in DOMAIN kw THEN kw[name] ELSE default

\* cls(**kw): the new object, or TypeError when kw does not fit the signature
Construct(cls, kw) ==
    IF ~(DOMAIN kw \subseteq Params(cls)) \/ ~(Required(cls) \subseteq DOMAIN kw)
    THEN TypeError
    ELSE CASE cls = "PrintCharCommand"   -> PrintCharCommand(kw.char)
           [] cls = "VolumeUpCommand"    ->
                VolumeUpCommand(Arg(kw, "amount", DefaultAmount),
                                Arg(kw, "current_volume", DefaultVolume))
           [] cls = "VolumeDownCommand"  ->
                VolumeDownCommand(Arg(kw, "amount", DefaultAmount),
                                  Arg(kw, "current_volume", DefaultVolume))
           [] cls = "MediaPlayerCommand" ->
                MediaPlayerCommand(Arg(kw, "is_playing", FALSE))

\* text[:-1]
DropLast(s) == IF s = <<>> THEN <<>> ELSE SubSeq(s, 1, Len(s) - 1)

(* The methods take the engine e (a record of text, heap, key_bindings,     *)
(* history, undo_stack, the snapshot file and the return value ret) and the *)
(* id c of self.                                                            *)

PrintCharCommand_execute(e, c) ==
    LET t == Append(e.text, e.heap[c].dict.char)
    IN  [e EXCEPT !.text = t, !.ret = t]

\* undo that computes text[:-1] and does not store it
PrintCharCommand_undo_keeps_text(e, c) ==
    [e EXCEPT !.ret = DropLast(e.text)]

PrintCharCommand_undo(e, c) ==
    LET t == DropLast(e.text)
    IN  [e EXCEPT !.text = t, !.ret = t]

\* execute that stops at 100 %
VolumeUpCommand_execute_clamped(e, c) ==
    LET d == e.heap[c].dict
        v == IF d.current_volume + d.amount > 100 THEN 100
             ELSE d.current_volume + d.amount
    IN  [e EXCEPT !.heap[c].dict.current_volume = v,
                  !.ret = <<"volume increased +", ToString(d.amount),
                            "% (now: ", ToString(v), "%)">>]

VolumeUpCommand_execute(e, c) ==
    LET d == e.heap[c].dict
        v == d.current_volume + d.amount
    IN  [e EXCEPT !.heap[c].dict.current_volume = v,
                  !.ret = <<"volume increased +", ToString(d.amount),
                            "% (now: ", ToString(v), "%)">>]

VolumeUpCommand_undo(e, c) ==
    LET d == e.heap[c].dict
        v == d.current_volume - d.amount
    IN  [e EXCEPT !.heap[c].dict.current_volume = v,
                  !.ret = <<"volume decreased +", ToString(d.amount),
                            "% (now: ", ToString(v), "%)">>]

VolumeDownCommand_execute(e, c) ==
    LET d == e.heap[c].dict
        v == d.current_volume - d.amount
    IN  [e EXCEPT !.heap[c].dict.current_volume = v,
                  !.ret = <<"volume decreased -", ToString(d.amount),
                            "% (now: ", ToString(v), "%)">>]

VolumeDownCommand_undo(e, c) ==
    LET d == e.heap[c].dict
        v == d.current_volume + d.amount
    IN  [e EXCEPT !.heap[c].dict.current_volume = v,
                  !.ret = <<"volume increased -", ToString(d.amount),
                            "% (now: ", ToString(v), "%)">>]

MediaPlayerCommand_execute(e, c) ==
    [e EXCEPT !.heap[c].dict.is_playing = TRUE, !.ret = <<"media player launched">>]

MediaPlayerCommand_undo(e, c) ==
    [e EXCEPT !.heap[c].dict.is_playing = FALSE, !.ret = <<"media player closed">>]

\* command.execute(), dispatched on the class of the object
execute(e, c) ==
    CASE e.heap[c].cls = "PrintCharCommand"   -> PrintCharCommand_execute(e, c)
      [] e.heap[c].cls = "VolumeUpCommand"    -> VolumeUpCommand_execute(e, c)
      [] e.heap[c].cls = "VolumeDownCommand"  -> VolumeDownCommand_execute(e, c)
      [] e.heap[c].cls = "MediaPlayerCommand" -> MediaPlayerCommand_execute(e, c)

\* command.undo()
command_undo(e, c) ==
    CASE e.heap[c].cls = "PrintCharCommand"   -> PrintCharCommand_undo(e, c)
      [] e.heap[c].cls = "VolumeUpCommand"    -> VolumeUpCommand_undo(e, c)
      [] e.heap[c].cls = "VolumeDownCommand"  -> VolumeDownCommand_undo(e, c)
      [] e.heap[c].cls = "MediaPlayerCommand" -> MediaPlayerCommand_undo(e, c)

\* redo that runs nothing
command_redo_noop(e, c) == [e EXCEPT !.ret = <<>>]

\* command.redo(): every class returns self.execute()
command_redo(e, c) == execute(e, c)

----------------------------------------------------------------------------
(* The binding table: a dict kept as the sequence of its items *)

Keys(kb) == {kb[i].key : i \in 1..Len(kb)}

IndexOf(kb, key) == CHOOSE i \in 1..Len(kb) : kb[i].key = key

\* kb.get(key): None for a missing key
Get(kb, key) == IF key \in Keys(kb) THEN kb[IndexOf(kb, key)].command ELSE None

\* kb[key] = command: in place for a key the dict holds, at the end otherwise
Put(kb, key, command) ==
    IF key \in Keys(kb)
    THEN [kb EXCEPT ![IndexOf(kb, key)].command = command]
    ELSE Append(kb, [key |-> key, command |-> command])

----------------------------------------------------------------------------
(* Objects *)

Refs(stack) == {stack[i].command : i \in 1..Len(stack)}

\* the objects the engine references
Live(e) ==
    ({e.key_bindings[i].command : i \in 1..Len(e.key_bindings)}
        \cup Refs(e.history) \cup Refs(e.undo_stack)) \ {None}

\* the id of a new object: one that no object of the heap has
NewId(h) == CHOOSE i \in 1..(Cardinality(DOMAIN h) + 1) :
                /\ i \notin DOMAIN h
                /\ \A j \in 1..(i - 1) : j \in DOMAIN h

\* h with object o stored under id
Store(h, id, o) == [i \in DOMAIN h \cup {id} |-> IF i = id THEN o ELSE h[i]]

\* the objects no reference reaches are freed
Collect(e) == [e EXCEPT !.heap = [i \in Live(e) |-> e.heap[i]]]

\* the references the engine holds, in the order key_bindings, history, undo_stack
RefSeq(e) ==
    [i \in 1..Len(e.key_bindings) |-> e.key_bindings[i].command]
        \o [i \in 1..Len(e.history) |-> e.history[i].command]
        \o [i \in 1..Len(e.undo_stack) |-> e.undo_stack[i].command]

\* An object id is an address: only its equality with another id is observable.
\* Between two handlers the state is kept with the live objects numbered
\* 1, 2, ... in the order of their first reference.
Renumber(e) ==
    LET refs == RefSeq(e)
        \* the places of refs that hold the first reference to an object
        firsts == {i \in 1..Len(refs) :
                      refs[i] # None /\ \A j \in 1..(i - 1) : refs[j] # refs[i]}
        rank(id) ==
            IF id = None THEN None
            ELSE Cardinality({i \in firsts :
                     \E k \in firsts : refs[k] = id /\ i <= k})
        old(n) == refs[CHOOSE i \in firsts :
                           Cardinality({j \in firsts : j <= i}) = n]
        ren(stack) == [i \in 1..Len(stack) |->
                          [stack[i] EXCEPT !.command = rank(@)]]
    IN  [e EXCEPT !.heap = [n \in 1..Cardinality(firsts) |-> e.heap[old(n)]],
                  !.key_bindings = ren(e.key_bindings),
                  !.history = ren(e.history),
                  !.undo_stack = ren(e.undo_stack)]

----------------------------------------------------------------------------
(* VirtualKeyboard *)

bind_key(e, key, command) ==
    [e EXCEPT !.key_bindings = Put(@, key, command), !.ret = <<>>]

\* bind_key(key, cls(**kw)) of a caller: the object is made, then bound
bind_new(e, key, obj) ==
    LET id == NewId(e.heap)
    IN  bind_key([e EXCEPT !.heap = Store(@, id, obj)], key, id)

\* undo that empties the undo_stack when there is nothing to undo
undo_empty_clears(e) ==
    IF e.history = <<>>
    THEN [e EXCEPT !.undo_stack = <<>>, !.ret = <<"Nothing to undo">>]
    ELSE LET command == e.history[Len(e.history)]
             e1 == [e EXCEPT !.history = DropLast(@)]
             e2 == command_undo(e1, command.command)
         IN  [e2 EXCEPT !.undo_stack = Append(@, command),
                        !.ret = <<"undo: ">> \o e2.ret]

\* undo that does not put the entry on the undo_stack
undo_drops_entry(e) ==
    IF e.history = <<>>
    THEN [e EXCEPT !.ret = <<"Nothing to undo">>]
    ELSE LET command == e.history[Len(e.history)]
             e1 == [e EXCEPT !.history = DropLast(@)]
             e2 == command_undo(e1, command.command)
         IN  [e2 EXCEPT !.ret = <<"undo: ">> \o e2.ret]

\* undo that takes the oldest entry of the history: pop(0)
undo_oldest_first(e) ==
    IF e.history = <<>>
    THEN [e EXCEPT !.ret = <<"Nothing to undo">>]
    ELSE LET command == Head(e.history)
             e1 == [e EXCEPT !.history = Tail(@)]
             e2 == command_undo(e1, command.command)
         IN  [e2 EXCEPT !.undo_stack = Append(@, command),
                        !.ret = <<"undo: ">> \o e2.ret]

undo(e) ==
    IF e.history = <<>>
    THEN [e EXCEPT !.ret = <<"Nothing to undo">>]
    ELSE LET command == e.history[Len(e.history)]
             e1 == [e EXCEPT !.history = DropLast(@)]
             e2 == command_undo(e1, command.command)
         IN  [e2 EXCEPT !.undo_stack = Append(@, command),
                        !.ret = <<"undo: ">> \o e2.ret]

\* redo that takes the oldest entry of the undo_stack: pop(0)
redo_oldest_first(e) ==
    IF e.undo_stack = <<>>
    THEN [e EXCEPT !.ret = <<"Nothing to redo">>]
    ELSE LET command == Head(e.undo_stack)
             e1 == [e EXCEPT !.undo_stack = Tail(@)]
             e2 == command_redo(e1, command.command)
         IN  [e2 EXCEPT !.history = Append(@, command),
                        !.ret = <<"redo: ">> \o e2.ret]

\* redo that does not put the entry back on the history
redo_drops_entry(e) ==
    IF e.undo_stack = <<>>
    THEN [e EXCEPT !.ret = <<"Nothing to redo">>]
    ELSE LET command == e.undo_stack[Len(e.undo_stack)]
             e1 == [e EXCEPT !.undo_stack = DropLast(@)]
             e2 == command_redo(e1, command.command)
         IN  [e2 EXCEPT !.ret = <<"redo: ">> \o e2.ret]

redo(e) ==
    IF e.undo_stack = <<>>
    THEN [e EXCEPT !.ret = <<"Nothing to redo">>]
    ELSE LET command == e.undo_stack[Len(e.undo_stack)]
             e1 == [e EXCEPT !.undo_stack = DropLast(@)]
             e2 == command_redo(e1, command.command)
         IN  [e2 EXCEPT !.history = Append(@, command),
                        !.ret = <<"redo: ">> \o e2.ret]

\* auto-binding of the keys the table does not hold: "key not in key_bindings"
auto_bind_absent_only(e, key) ==
    IF key \notin Keys(e.key_bindings) /\ KeyLen(key) = 1
    THEN bind_new(e, key, PrintCharCommand(key))
    ELSE e

\* auto-binding without the test for an existing command
auto_bind_always(e, key) ==
    IF KeyLen(key) = 1
    THEN bind_new(e, key, PrintCharCommand(key))
    ELSE e

\* lines 143-145: the auto-binding of a one-character key without a command
auto_bind(e, key) ==
    IF Get(e.key_bindings, key) = None /\ KeyLen(key) = 1
    THEN bind_new(e, key, PrintCharCommand(key))
    ELSE e

\* a press that leaves the undo_stack as it is
invoke_keeps_undone(e, key, command) ==
    IF command # None
    THEN LET e1 == execute(e, command)
         IN  [e1 EXCEPT !.history = Append(@, [key |-> key, command |-> command]),
                        !.ret = e1.ret]
    ELSE [e EXCEPT !.ret = <<"Unknown key: ", key>>]

\* a press that records a copy of the command it ran
invoke_records_copy(e, key, command) ==
    IF command # None
    THEN LET e1 == execute(e, command)
             copy == NewId(e1.heap)
         IN  [e1 EXCEPT !.heap = Store(@, copy, e1.heap[command]),
                        !.history = Append(@, [key |-> key, command |-> copy]),
                        !.undo_stack = <<>>,
                        !.ret = e1.ret]
    ELSE [e EXCEPT !.ret = <<"Unknown key: ", key>>]

\* a press that empties the undo_stack before it looks at the command
invoke_unknown_clears(e, key, command) ==
    IF command # None
    THEN LET e1 == execute(e, command)
         IN  [e1 EXCEPT !.history = Append(@, [key |-> key, command |-> command]),
                        !.undo_stack = <<>>,
                        !.ret = e1.ret]
    ELSE [e EXCEPT !.undo_stack = <<>>, !.ret = <<"Unknown key: ", key>>]

\* a press that runs the command twice
invoke_runs_twice(e, key, command) ==
    IF command # None
    THEN LET e1 == execute(execute(e, command), command)
         IN  [e1 EXCEPT !.history = Append(@, [key |-> key, command |-> command]),
                        !.undo_stack = <<>>,
                        !.ret = e1.ret]
    ELSE [e EXCEPT !.ret = <<"Unknown key: ", key>>]

\* lines 146-151: the command runs and is recorded, or the key is unknown
invoke(e, key, command) ==
    IF command # None
    THEN LET e1 == execute(e, command)
         IN  [e1 EXCEPT !.history = Append(@, [key |-> key, command |-> command]),
                        !.undo_stack = <<>>,
                        !.ret = e1.ret]
    ELSE [e EXCEPT !.ret = <<"Unknown key: ", key>>]

\* a press that looks the key up in the table before it tests for undo / redo
press_key_table_first(e, key) ==
    LET e1 == auto_bind(e, key)
        command == Get(e1.key_bindings, key)
    IN  IF command # None THEN invoke(e1, key, command)
        ELSE IF key = "undo" THEN undo(e)
        ELSE IF key = "redo" THEN redo(e)
        ELSE invoke(e1, key, command)

press_key(e, key) ==
    IF key = "undo" THEN undo(e)
    ELSE IF key = "redo" THEN redo(e)
    ELSE LET e1 == auto_bind(e, key)
         IN  invoke(e1, key, Get(e1.key_bindings, key))

\* VirtualKeyboard(): the three empty containers, then the default bindings
init_default_bindings(e) ==
    LET e1 == bind_new(e,  "a", PrintCharCommand("a"))
        e2 == bind_new(e1, "b", PrintCharCommand("b"))
        e3 == bind_new(e2, "c", PrintCharCommand("c"))
        e4 == bind_new(e3, "d", PrintCharCommand("d"))
        e5 == bind_new(e4, "ctrl++", VolumeUpCommand(DefaultAmount, DefaultVolume))
        e6 == bind_new(e5, "ctrl+-", VolumeDownCommand(DefaultAmount, DefaultVolume))
        e7 == bind_new(e6, "ctrl+p", MediaPlayerCommand(FALSE))
        e8 == bind_key(e7, "undo", None)
    IN  bind_key(e8, "redo", None)

\* no snapshot file on disk
Missing == [kind |-> "missing"]

VirtualKeyboard ==
    init_default_bindings(
        [text |-> <<>>, heap |-> <<>>, key_bindings |-> <<>>,
         history |-> <<>>, undo_stack |-> <<>>, file |-> Missing, ret |-> <<>>])

----------------------------------------------------------------------------
(* KeyboardMemento and the snapshot file *)

\* JSON null, the image of a key bound to None
null == [null |-> TRUE]

\* a file whose content is not JSON
Garbage == [kind |-> "garbage"]

\* a file whose bytes are not text in the encoding open() reads with
Undecodable == [kind |-> "undecodable"]

\* a file holding the JSON object doc
Json(doc) == [kind |-> "json", state |-> doc]

True == <<"True">>
False == <<"False">>

\* a memento that leaves out the keys bound to None
from_keyboard_skips_unbound(e) ==
    LET bound == SelectSeq(e.key_bindings, LAMBDA b : b.command # None)
    IN  [text |-> e.text,
         key_bindings |->
            [i \in 1..Len(bound) |->
                [key |-> bound[i].key,
                 data |-> [class |-> e.heap[bound[i].command].cls,
                           state |-> e.heap[bound[i].command].dict]]],
         history |-> [i \in 1..Len(e.history) |-> e.history[i].key],
         undo_stack |-> [i \in 1..Len(e.undo_stack) |-> e.undo_stack[i].key]]

\* a memento whose history list runs from the newest entry to the oldest
from_keyboard_newest_first(e) ==
    [text |-> e.text,
     key_bindings |->
        [i \in 1..Len(e.key_bindings) |->
            LET command == e.key_bindings[i].command
            IN  [key |-> e.key_bindings[i].key,
                 data |-> IF command = None
                          THEN null
                          ELSE [class |-> e.heap[command].cls,
                                state |-> e.heap[command].dict]]],
     history |-> [i \in 1..Len(e.history) |->
                     e.history[Len(e.history) + 1 - i].key],
     undo_stack |-> [i \in 1..Len(e.undo_stack) |-> e.undo_stack[i].key]]

from_keyboard(e) ==
    [text |-> e.text,
     key_bindings |->
        [i \in 1..Len(e.key_bindings) |->
            LET command == e.key_bindings[i].command
            IN  [key |-> e.key_bindings[i].key,
                 data |-> IF command = None
                          THEN null
                          ELSE [class |-> e.heap[command].cls,
                                state |-> e.heap[command].dict]]],
     history |-> [i \in 1..Len(e.history) |-> e.history[i].key],
     undo_stack |-> [i \in 1..Len(e.undo_stack) |-> e.undo_stack[i].key]]

\* a save that drops the undo_stack when the write fails
save_state_drops_undone(e, io) ==
    LET memento == from_keyboard(e)
    IN  CASE io = "ok"    -> [e EXCEPT !.file = Json(memento), !.ret = <<>>]
          [] io = "open"  -> [e EXCEPT !.undo_stack = <<>>, !.ret = Raised("OSError")]
          [] io = "write" -> [e EXCEPT !.undo_stack = <<>>, !.file = Garbage,
                                       !.ret = Raised("OSError")]

\* io: "ok", or where the write fails: at open() or inside json.dump
save_state(e, io) ==
    LET memento == from_keyboard(e)
    IN  CASE io = "ok"    -> [e EXCEPT !.file = Json(memento), !.ret = <<>>]
          [] io = "open"  -> [e EXCEPT !.ret = Raised("OSError")]
          [] io = "write" -> [e EXCEPT !.file = Garbage, !.ret = Raised("OSError")]

\* state.get(name, default)
StateGet(state, name, default) ==
    IF name \in DOMAIN state THEN state[name] ELSE default

\* lines 189-194: the loop over the items of state['key_bindings'];
\* exc is the exception that ended it, if any
RECURSIVE load_bindings(_, _, _)
load_bindings(e, items, i) ==
    IF i > Len(items)
    THEN [e |-> e, exc |-> "none"]
    ELSE LET key == items[i].key
             command_data == items[i].data
         IN  IF command_data = null
             THEN load_bindings(bind_key(e, key, None), items, i + 1)
             ELSE IF \/ "class" \notin DOMAIN command_data
                     \/ command_data.class \notin class_names
                     \/ "state" \notin DOMAIN command_data
             THEN [e |-> e, exc |-> "KeyError"]
             ELSE LET command == Construct(command_data.class, command_data.state)
                  IN  IF command = TypeError
                      THEN [e |-> e, exc |-> "TypeError"]
                      ELSE load_bindings(bind_new(e, key, command), items, i + 1)

\* rebuild without the test "is not None"
RECURSIVE rebuild_keeps_unbound(_, _)
rebuild_keeps_unbound(kb, tokens) ==
    IF tokens = <<>>
    THEN <<>>
    ELSE IF Head(tokens) \in Keys(kb)
         THEN <<[key |-> Head(tokens), command |-> Get(kb, Head(tokens))]>>
                  \o rebuild_keeps_unbound(kb, Tail(tokens))
         ELSE rebuild_keeps_unbound(kb, Tail(tokens))

\* lines 196-206: the entries of the listed keys that have a command
RECURSIVE rebuild(_, _)
rebuild(kb, tokens) ==
    IF tokens = <<>>
    THEN <<>>
    ELSE IF Head(tokens) \in Keys(kb) /\ Get(kb, Head(tokens)) # None
         THEN <<[key |-> Head(tokens), command |-> Get(kb, Head(tokens))]>>
                  \o rebuild(kb, Tail(tokens))
         ELSE rebuild(kb, Tail(tokens))

\* a load without key_bindings.clear()
load_table_keeps_bindings(e, state) ==
    load_bindings([e EXCEPT !.text = state.text],
                  StateGet(state, "key_bindings", <<>>), 1)

\* lines 185-194: the text is set, the table emptied and filled again
load_table(e, state) ==
    load_bindings(Collect([e EXCEPT !.text = state.text, !.key_bindings = <<>>]),
                  StateGet(state, "key_bindings", <<>>), 1)

\* stacks rebuilt with a copy of the table's command in every history entry
rebuild_stacks_copies(e, state) ==
    LET h == rebuild(e.key_bindings, StateGet(state, "history", <<>>))
        m == Cardinality(DOMAIN e.heap) + Len(e.history) + Len(e.undo_stack) + 1
    IN  [e EXCEPT
            !.heap = [j \in DOMAIN e.heap \cup {m + i : i \in 1..Len(h)} |->
                         IF j \in DOMAIN e.heap THEN e.heap[j]
                         ELSE e.heap[h[j - m].command]],
            !.history = [i \in 1..Len(h) |-> [h[i] EXCEPT !.command = m + i]],
            !.undo_stack = rebuild(e.key_bindings, StateGet(state, "undo_stack", <<>>)),
            !.ret = True]

\* lines 196-207: both stacks are rebuilt from the new table
rebuild_stacks(e, state) ==
    [e EXCEPT !.history = rebuild(e.key_bindings, StateGet(state, "history", <<>>)),
              !.undo_stack = rebuild(e.key_bindings, StateGet(state, "undo_stack", <<>>)),
              !.ret = True]

\* load_state reading a file of the given content
load_state(e, content) ==
    IF content.kind = "undecodable"
    THEN [e EXCEPT !.ret = Raised("UnicodeDecodeError")]
    ELSE IF content.kind # "json"
    THEN [e EXCEPT !.ret = False]
    ELSE IF "text" \notin DOMAIN content.state
    THEN [e EXCEPT !.ret = False]
    ELSE LET r == load_table(e, content.state)
         IN  CASE r.exc = "KeyError"  -> [r.e EXCEPT !.ret = False]
               [] r.exc = "TypeError" -> [r.e EXCEPT !.ret = Raised("TypeError")]
               [] OTHER -> rebuild_stacks(r.e, content.state)

----------------------------------------------------------------------------
(* The state machine *)

\* the engine as the handlers see it
Engine ==
    [text |-> text, heap |-> heap, key_bindings |-> key_bindings,
     history |-> history, undo_stack |-> undo_stack, file |-> file, ret |-> result]

\* the engine after a handler returned e
Becomes(e) ==
    \E g \in {e} : \E f \in {Renumber(g)} :
        /\ text' = f.text
        /\ heap' = f.heap
        /\ key_bindings' = f.key_bindings
        /\ history' = f.history
        /\ undo_stack' = f.undo_stack
        /\ file' = f.file
        /\ result' = f.ret

Init ==
    /\ text = VirtualKeyboard.text
    /\ heap = VirtualKeyboard.heap
    /\ key_bindings = VirtualKeyboard.key_bindings
    /\ history = <<>>
    /\ undo_stack = <<>>
    /\ file = Missing
    /\ result = <<>>
    /\ last = [op |-> "init", key |-> ""]

Reserved == {"undo", "redo"}

\* press_key(key); a key that is not reserved is pressed while the history
\* holds fewer than cap entries and the text fewer than cap characters
PressAt(key, cap) ==
    /\ key \in Reserved \/ (Len(history) < cap /\ Len(text) < cap)
    /\ Becomes(press_key(Engine, key))
    /\ last' = [op |-> "press", key |-> key]

Undo ==
    /\ Becomes(undo(Engine))
    /\ last' = [op |-> "undo", key |-> ""]

Redo ==
    /\ Becomes(redo(Engine))
    /\ last' = [op |-> "redo", key |-> ""]

\* bind_key(key, None) or bind_key(key, cls(**state)) with a new object
Bind(key, command_data) ==
    /\ Becomes(IF command_data = null
               THEN bind_key(Engine, key, None)
               ELSE bind_new(Engine, key,
                             Construct(command_data.class, command_data.state)))
    /\ last' = [op |-> "bind", key |-> key]

Save(io) ==
    /\ Becomes(save_state(Engine, io))
    /\ last' = [op |-> "save", key |-> io]

\* load_state(filename) of a file with the given content; last.key keeps
\* what kind of file it was
Load(content) ==
    /\ Becomes(load_state(Engine, content))
    /\ last' = [op |-> "load", key |-> content.kind]

----------------------------------------------------------------------------
(* The engine driven by key presses alone *)

\* the keys a caller presses
PressKeys == {"a", "x", "ctrl++", "ctrl+-", "ctrl+p", "undo", "redo", "zz"}

Press(key) == PressAt(key, MaxHist)

NextPress == \E key \in PressKeys : Press(key)

SpecPress == Init /\ [][NextPress]_vars

----------------------------------------------------------------------------
(* The engine typing text: the keys of the demo sequence of lines 231-240 *)

DemoKeys == {"a", "b", "c", "d", "undo", "redo"}

Tap(key) == PressAt(key, MaxHist)

NextDemo == \E key \in DemoKeys : Tap(key)

SpecDemo == Init /\ [][NextDemo]_vars

----------------------------------------------------------------------------
(* The engine with bind_key: press, bind, undo, redo *)

EngineKeys == {"a", "x", "ctrl++", "undo", "redo", "zz"}

BindKeys == {"a"}

BindCommands ==
    {null, [class |-> "PrintCharCommand", state |-> [char |-> "b"]]}

Strike(key) == PressAt(key, MaxStack)

NextEngine ==
    \/ \E key \in EngineKeys : Strike(key)
    \/ Undo
    \/ Redo
    \/ \E key \in BindKeys, command_data \in BindCommands : Bind(key, command_data)

SpecEngine == Init /\ [][NextEngine]_vars

----------------------------------------------------------------------------
(* The engine with every operation: press, bind, undo, redo, save, load *)

TypeKeys == {"a", "undo", "redo", "zz"}

UnbindKeys == {"a"}

SaveOutcomes == {"ok", "open", "write"}

\* a snapshot that lists keys its own table does not bind to a command:
\* "q" is absent and "b" is bound to null
OrphanSnapshot ==
    Json([text |-> <<"a">>,
          key_bindings |->
              <<[key |-> "a", data |-> [class |-> "PrintCharCommand",
                                        state |-> [char |-> "a"]]],
                [key |-> "b", data |-> null],
                [key |-> "ctrl++", data |-> [class |-> "VolumeUpCommand",
                                             state |-> [amount |-> 20,
                                                        current_volume |-> 70]]]>>,
          history |-> <<"a", "q", "ctrl++">>,
          undo_stack |-> <<"b", "a">>])

ExternalFiles == {OrphanSnapshot}

Type(key) == PressAt(key, MaxStack)

Next ==
    \/ \E key \in TypeKeys : Type(key)
    \/ \E key \in UnbindKeys : Bind(key, null)
    \/ \E io \in SaveOutcomes : Save(io)
    \/ \E content \in {file} \cup ExternalFiles : Load(content)

Spec == Init /\ [][Next]_vars

----------------------------------------------------------------------------
(* The engine loading files it did not write: press, save, load *)

LoadKeys == {"a", "undo", "redo"}

\* a snapshot whose second table entry names a class that does not exist
UnknownKindSnapshot ==
    Json([text |-> <<"b">>,
          key_bindings |->
              <<[key |-> "b", data |-> [class |-> "PrintCharCommand",
                                        state |-> [char |-> "b"]]],
                [key |-> "m", data |-> [class |-> "MuteCommand",
                                        state |-> [muted |-> TRUE]]],
                [key |-> "a", data |-> [class |-> "PrintCharCommand",
                                        state |-> [char |-> "a"]]]>>,
          history |-> <<"b">>,
          undo_stack |-> <<"a">>])

\* a snapshot whose second table entry has a field its class does not take
BadFieldsSnapshot ==
    Json([text |-> <<"b">>,
          key_bindings |->
              <<[key |-> "b", data |-> [class |-> "PrintCharCommand",
                                        state |-> [char |-> "b"]]],
                [key |-> "ctrl++", data |-> [class |-> "VolumeUpCommand",
                                             state |-> [level |-> 70]]],
                [key |-> "a", data |-> [class |-> "PrintCharCommand",
                                        state |-> [char |-> "a"]]]>>,
          history |-> <<"b">>,
          undo_stack |-> <<"a">>])

\* a snapshot without the text
NoTextSnapshot ==
    Json([key_bindings |->
              <<[key |-> "b", data |-> [class |-> "PrintCharCommand",
                                        state |-> [char |-> "b"]]]>>,
          history |-> <<"b">>,
          undo_stack |-> <<>>])

\* a snapshot without the history and the undo_stack
BareSnapshot ==
    Json([text |-> <<"b">>,
          key_bindings |->
              <<[key |-> "b", data |-> [class |-> "PrintCharCommand",
                                        state |-> [char |-> "b"]]]>>])

PartialFiles == {BareSnapshot}

BadEntryFiles == {UnknownKindSnapshot, BadFieldsSnapshot}

UnreadableFiles == {Missing, Garbage, Undecodable}

DamagedFiles == UnreadableFiles \cup BadEntryFiles \cup {NoTextSnapshot}

Hit(key) == PressAt(key, MaxStack)

NextLoad ==
    \/ \E key \in LoadKeys : Hit(key)
    \/ Save("ok")
    \/ \E content \in {file} \cup DamagedFiles \cup PartialFiles : Load(content)

SpecLoad == Init /\ [][NextLoad]_vars

----------------------------------------------------------------------------
(* Properties *)

AllKeys == PressKeys

Unknown(key) == <<"Unknown key: ", key>>

\* the keys of the entries of a stack, oldest first
StackKeys(stack) == [i \in 1..Len(stack) |-> stack[i].key]

Top(stack) == stack[Len(stack)]

IsPrintChar(e, c) == e.heap[c].cls = "PrintCharCommand"

\* the characters of the PrintCharCommand entries of the history, oldest first
PrintedChars(e) ==
    LET printed == SelectSeq(e.history, LAMBDA h : IsPrintChar(e, h.command))
    IN  [i \in 1..Len(printed) |-> e.heap[printed[i].command].dict.char]

TextMatchesHistory == text = PrintedChars(Engine)

\* every entry of both stacks holds the object the table binds its key to
Shared(e) ==
    \A stack \in {e.history, e.undo_stack} : \A i \in 1..Len(stack) :
        /\ stack[i].command # None
        /\ stack[i].command = Get(e.key_bindings, stack[i].key)

SharedNow == Shared(Engine)

(* C1 as stated: right after any press of a key other than undo / redo the  *)
(* undo_stack is empty.                                                     *)
C1_AnyPressClearsUndone ==
    (last.op = "press" /\ last.key \notin Reserved) => undo_stack = <<>>

(* C1, amended: a press of a key other than undo / redo that runs a command *)
(* (does not return "Unknown key") leaves the undo_stack empty.             *)
C1_ResolvedPressClearsUndone ==
    /\ (last.op = "press" /\ last.key \notin Reserved /\ result # Unknown(last.key))
           => undo_stack = <<>>
    /\ \A key \in AllKeys \ Reserved :
           LET e == press_key(Engine, key)
           IN  e.ret # Unknown(key) => e.undo_stack = <<>>

C1_Witness ==
    /\ undo_stack # <<>>
    /\ press_key(Engine, "a").ret # Unknown("a")
    /\ press_key(Engine, "a").undo_stack = <<>>

C3_RoundTrip ==
    LET saved == save_state(Engine, "ok")
        rebuilt == load_state(VirtualKeyboard, saved.file)
    IN  /\ rebuilt.ret = True
        /\ rebuilt.text = text
        /\ undo(rebuilt).ret = undo(Engine).ret
        /\ undo(rebuilt).text = undo(Engine).text

C3_Witness ==
    /\ Len(history) >= 2
    /\ undo_stack # <<>>
    /\ ~IsPrintChar(Engine, Top(history).command)
    /\ text # <<>>
    /\ undo(load_state(VirtualKeyboard, save_state(Engine, "ok").file)).ret
           = undo(Engine).ret

(* C4: after a load_state that returns True every entry of both stacks      *)
(* holds the object the rebuilt table binds its key to, entries of one key  *)
(* share one object, and an undo or redo through the stack changes the      *)
(* object the table holds.                                                  *)
C4_LoadSharesOperations ==
    \A content \in {file} \cup ExternalFiles :
        LET r == load_state(Engine, content)
            entries == r.history \o r.undo_stack
        IN  r.ret = True =>
              /\ Shared(r)
              /\ \A i, j \in 1..Len(entries) :
                     entries[i].key = entries[j].key
                        => entries[i].command = entries[j].command
              /\ r.history # <<>> =>
                     LET c == Get(r.key_bindings, Top(r.history).key)
                     IN  undo(r).heap[c] = command_undo(r, c).heap[c]
              /\ r.undo_stack # <<>> =>
                     LET c == Get(r.key_bindings, Top(r.undo_stack).key)
                     IN  redo(r).heap[c] = execute(r, c).heap[c]

C4_Witness ==
    /\ last.op = "load" /\ result = True
    /\ history # <<>>
    /\ ~IsPrintChar(Engine, Top(history).command)
    /\ Top(history).command = Get(key_bindings, Top(history).key)
    /\ undo(Engine).heap[Get(key_bindings, Top(history).key)]
           # heap[Get(key_bindings, Top(history).key)]

\* whether the table of a snapshot binds key to a command
BoundIn(state, key) ==
    \E i \in 1..Len(state.key_bindings) :
        state.key_bindings[i].key = key /\ state.key_bindings[i].data # null

\* a snapshot with a text whose table entries all name a class and fit it
WellFormed(content) ==
    /\ content.kind = "json"
    /\ DOMAIN content.state = {"text", "key_bindings", "history", "undo_stack"}
    /\ \A i \in 1..Len(content.state.key_bindings) :
           LET d == content.state.key_bindings[i].data
           IN  d # null =>
                  /\ DOMAIN d = {"class", "state"}
                  /\ d.class \in class_names
                  /\ Construct(d.class, d.state) # TypeError

(* C5: load_state of a snapshot whose lists name keys that its table does   *)
(* not hold, or binds to null, returns True; the rebuilt stacks hold the    *)
(* other keys of the lists, in the order of the lists.                      *)
C5_TolerantReconstruction ==
    \A content \in {file} \cup ExternalFiles :
        WellFormed(content) =>
            LET r == load_state(Engine, content)
                bound(key) == BoundIn(content.state, key)
            IN  /\ r.ret = True
                /\ StackKeys(r.history) = SelectSeq(content.state.history, bound)
                /\ StackKeys(r.undo_stack) = SelectSeq(content.state.undo_stack, bound)

C5_Witness ==
    /\ last.op = "load" /\ result = True
    /\ "q" \notin Keys(key_bindings)
    /\ "b" \in Keys(key_bindings) /\ Get(key_bindings, "b") = None
    /\ StackKeys(history) = <<"a", "ctrl++">>
    /\ StackKeys(undo_stack) = <<"a">>

(* C6 as stated: in every state reached by press_key, bind_key, undo and    *)
(* redo every entry of both stacks holds the object the table binds its key *)
(* to.                                                                      *)
C6_EntriesAlwaysShared == SharedNow

(* C6, amended: every entry of both stacks holds the object the table binds *)
(* its key to in the initial state, and every press_key, undo and redo      *)
(* keeps it so; only bind_key can break it.                                 *)
C6_EntriesSharedKept ==
    [][(SharedNow /\ last'.op # "bind") => SharedNow']_vars

C6_Witness ==
    /\ last.op = "press"
    /\ Get(key_bindings, "x") # None
    /\ history # <<>> /\ undo_stack # <<>>
    /\ Top(undo_stack).key = "ctrl++"
    /\ SharedNow

(* C7: a press of a one-character key without a command makes one           *)
(* PrintCharCommand of that key, binds it and executes it; a press of a key *)
(* that has a command executes that object, makes no object and leaves the  *)
(* table as it is.                                                          *)
C7_AutoBind ==
    \A key \in AllKeys \ Reserved :
        LET e == press_key(Engine, key)
            before == Get(key_bindings, key)
            after == Get(e.key_bindings, key)
        IN  /\ (before = None /\ KeyLen(key) = 1) =>
                  /\ after \notin DOMAIN heap \cup {None}
                  /\ DOMAIN e.heap = DOMAIN heap \cup {after}
                  /\ e.heap[after] = PrintCharCommand(key)
                  /\ e.key_bindings = Put(key_bindings, key, after)
                  /\ e.text = Append(text, key)
                  /\ e.history = Append(history, [key |-> key, command |-> after])
            /\ before # None =>
                  /\ e.key_bindings = key_bindings
                  /\ DOMAIN e.heap = DOMAIN heap
                  /\ e.history = Append(history, [key |-> key, command |-> before])
                  /\ e.heap = execute(Engine, before).heap

C7_Witness ==
    /\ last.op = "press" /\ last.key = "x"
    /\ Len(history) >= 2
    /\ \A i \in 1..Len(history) :
           history[i] = [key |-> "x", command |-> Get(key_bindings, "x")]
    /\ Cardinality({i \in 1..Len(key_bindings) : key_bindings[i].key = "x"}) = 1
    /\ text = <<"x", "x">>

(* C8: a press of a key that is not reserved, has no command and is not one *)
(* character long returns "Unknown key" and changes nothing.                *)
C8_UnknownKey ==
    /\ \A key \in AllKeys \ Reserved :
           (Get(key_bindings, key) = None /\ KeyLen(key) # 1) =>
               press_key(Engine, key) = [Engine EXCEPT !.ret = Unknown(key)]
    /\ LET unbound == bind_key(Engine, "zz", None)
       IN  press_key(unbound, "zz") = [unbound EXCEPT !.ret = Unknown("zz")]

C8_Witness ==
    /\ last.op = "press" /\ last.key = "zz"
    /\ result = Unknown("zz")
    /\ history # <<>> /\ undo_stack # <<>>

(* C9: undo with an empty history returns "Nothing to undo", redo with an   *)
(* empty undo_stack returns "Nothing to redo", and neither changes anything.*)
C9_EmptyStacks ==
    /\ history = <<>> =>
          /\ undo(Engine) = [Engine EXCEPT !.ret = <<"Nothing to undo">>]
          /\ press_key(Engine, "undo") = undo(Engine)
    /\ undo_stack = <<>> =>
          /\ redo(Engine) = [Engine EXCEPT !.ret = <<"Nothing to redo">>]
          /\ press_key(Engine, "redo") = redo(Engine)

C9_Witness ==
    /\ last.op = "undo"
    /\ result = <<"Nothing to undo">>
    /\ history = <<>> /\ undo_stack # <<>>
    /\ text = <<>>

(* C10: with a history that is not empty, an undo followed at once by a     *)
(* redo leaves the text as it was before the undo.                          *)
C10_RedoAfterUndo ==
    history # <<>> =>
        /\ redo(undo(Engine)).text = text
        /\ press_key(press_key(Engine, "undo"), "redo").text = text

C10_Witness ==
    /\ last.op = "press" /\ last.key = "redo"
    /\ Len(text) >= 2
    /\ IsPrintChar(Engine, Top(history).command)
    /\ undo(Engine).text # text
    /\ redo(undo(Engine)).text = text

(* C11 as stated: load_state of a file that is missing or is not valid JSON *)
(* returns False, raises nothing and leaves the text, the table and both    *)
(* stacks as they were.                                                     *)
C11_ReadFailureIsClean ==
    [][(last'.op = "load" /\ last'.key # "json")
          => /\ result' = False
             /\ UNCHANGED <<text, heap, key_bindings, history, undo_stack>>]_vars

\* whether load_state can install the table entry of a snapshot
GoodEntry(entry) ==
    \/ entry.data = null
    \/ /\ DOMAIN entry.data = {"class", "state"}
       /\ entry.data.class \in class_names
       /\ Construct(entry.data.class, entry.data.state) # TypeError

\* whether the table of e holds what the entry of a snapshot describes
Installed(e, entry) ==
    /\ entry.key \in Keys(e.key_bindings)
    /\ LET command == Get(e.key_bindings, entry.key)
       IN  IF entry.data = null
           THEN command = None
           ELSE /\ command # None
                /\ e.heap[command] = Construct(entry.data.class, entry.data.state)

(* C12 as stated: load_state of a snapshot with a text and one table entry  *)
(* of an unknown class, or with fields its class does not take, returns     *)
(* True, installs every other table entry and rebuilds the text and both    *)
(* stacks from the snapshot; a snapshot without a text makes it return      *)
(* False.                                                                   *)
C12_BadEntrySkipped ==
    /\ \A content \in BadEntryFiles :
           LET state == content.state
               r == load_state(Engine, content)
               bound(key) == Get(r.key_bindings, key) # None
           IN  /\ r.ret = True
               /\ r.text = state.text
               /\ \A i \in 1..Len(state.key_bindings) :
                      GoodEntry(state.key_bindings[i])
                          => Installed(r, state.key_bindings[i])
               /\ StackKeys(r.history) = SelectSeq(state.history, bound)
               /\ StackKeys(r.undo_stack) = SelectSeq(state.undo_stack, bound)
    /\ load_state(Engine, NoTextSnapshot).ret = False

(* C13: save_state, whether the write succeeds or fails, leaves the text,   *)
(* the table, the objects and both stacks as they were; a failed write      *)
(* raises to the caller, and a press, undo or redo after the save does what *)
(* it would have done without it.                                           *)
C13_SaveLeavesMemory ==
    \A io \in SaveOutcomes :
        LET saved == save_state(Engine, io)
        IN  /\ [saved EXCEPT !.file = file, !.ret = result] = Engine
            /\ io # "ok" => saved.ret = Raised("OSError")
            /\ io = "ok" => saved.file = Json(from_keyboard(Engine))
            /\ \A key \in TypeKeys :
                   [press_key(saved, key) EXCEPT !.file = file]
                       = press_key(Engine, key)

C13_Witness ==
    /\ last = [op |-> "save", key |-> "write"]
    /\ result = Raised("OSError")
    /\ file = Garbage
    /\ history # <<>> /\ undo_stack # <<>>
    /\ press_key(Engine, "redo").history = Append(history, Top(undo_stack))

(* C14 as stated: in every reachable state, failed load_state calls         *)
(* included, every key in the history list and in the undo_stack list of    *)
(* the snapshot from_keyboard takes is a key of the snapshot's key_bindings.*)
C14_SnapshotTokensBound ==
    LET memento == from_keyboard(Engine)
        keys == {memento.key_bindings[i].key : i \in 1..Len(memento.key_bindings)}
    IN  /\ \A i \in 1..Len(memento.history) : memento.history[i] \in keys
        /\ \A i \in 1..Len(memento.undo_stack) : memento.undo_stack[i] \in keys

\* what press_key does for a reserved key
Transition(e, key) == IF key = "undo" THEN undo(e) ELSE redo(e)

(* C15: a press of "undo" or "redo" runs undo() or redo() whatever the      *)
(* table holds for the key; in every state reached by presses from the      *)
(* default engine both keys are bound to None and no entry of the history   *)
(* or the undo_stack has either as its key.                                 *)
C15_ReservedTokens ==
    \A key \in Reserved :
        /\ key \in Keys(key_bindings) /\ Get(key_bindings, key) = None
        /\ \A i \in 1..Len(history) : history[i].key # key
        /\ \A i \in 1..Len(undo_stack) : undo_stack[i].key # key
        /\ press_key(Engine, key) = Transition(Engine, key)
        /\ LET bound == bind_new(Engine, key, MediaPlayerCommand(FALSE))
           IN  press_key(bound, key) = Transition(bound, key)

C15_Witness ==
    /\ last = [op |-> "press", key |-> "undo"]
    /\ Head(result) = "undo: "
    /\ history # <<>> /\ undo_stack # <<>>
    /\ Get(key_bindings, "undo") = None
    /\ LET bound == bind_new(Engine, "undo", MediaPlayerCommand(FALSE))
       IN  press_key(bound, "undo").history = DropLast(history)

\* the sequence a, b, c, undo, undo, redo, d, redo pressed on engine e
Scenario(e) ==
    LET abc == press_key(press_key(press_key(e, "a"), "b"), "c")
        undone == press_key(abc, "undo")
        twice == press_key(undone, "undo")
        redone == press_key(twice, "redo")
        branched == press_key(redone, "d")
        after == press_key(branched, "redo")
    IN  /\ abc.text = <<"a", "b", "c">>
        /\ undone.text = <<"a", "b">>
        /\ undone.ret = <<"undo: ", "a", "b">>
        /\ twice.text = <<"a">>
        /\ redone.text = <<"a", "b">>
        /\ StackKeys(redone.undo_stack) = <<"c">>
        /\ branched.text = <<"a", "b", "d">>
        /\ branched.undo_stack = <<>>
        /\ after = [branched EXCEPT !.ret = <<"Nothing to redo">>]

(* C16: on a default engine with an empty text, a, b, c give the text abc;  *)
(* undo gives ab and returns a string that holds ab; a second undo gives a; *)
(* redo gives ab; d gives abd and an empty undo_stack, and a redo after it  *)
(* returns "Nothing to redo" and re-applies nothing.                        *)
C16_BranchInvalidation ==
    /\ Scenario(VirtualKeyboard)
    /\ text = <<>> => Scenario(Engine)

C16_Witness ==
    /\ last = [op |-> "press", key |-> "redo"]
    /\ result = <<"Nothing to redo">>
    /\ text = <<"a", "b", "d">>
    /\ StackKeys(history) = <<"a", "b", "d">>
    /\ undo_stack = <<>>

\* the current_volume of a volume command, 0 for the other classes
Volume(e, c) ==
    IF e.heap[c].cls \in {"VolumeUpCommand", "VolumeDownCommand"}
    THEN e.heap[c].dict.current_volume
    ELSE 0

\* the change one execute() of command c makes to its current_volume
Step(e, c) ==
    CASE e.heap[c].cls = "VolumeUpCommand"   -> e.heap[c].dict.amount
      [] e.heap[c].cls = "VolumeDownCommand" -> 0 - e.heap[c].dict.amount
      [] OTHER -> 0

\* the characters one execute() of command c adds to the text
Typed(e, c) == IF IsPrintChar(e, c) THEN <<e.heap[c].dict.char>> ELSE <<>>

(* C17: a press that resolves a command runs its execute() once, puts one   *)
(* entry of the key and that command on top of the history, leaves the      *)
(* older entries as they were and returns what execute() returned.          *)
C17_InvokeTransition ==
    \A key \in AllKeys \ Reserved :
        LET e1 == auto_bind(Engine, key)
            command == Get(e1.key_bindings, key)
            ran == execute(e1, command)
            e == press_key(Engine, key)
        IN  command # None =>
               /\ e.history = Append(history, [key |-> key, command |-> command])
               /\ e.ret = ran.ret
               /\ e.heap = ran.heap
               /\ e.text = text \o Typed(e1, command)
               /\ Volume(e, command) = Volume(e1, command) + Step(e1, command)

C17_Witness ==
    /\ last = [op |-> "press", key |-> "ctrl++"]
    /\ result = <<"volume increased +", "20", "% (now: ", "90", "%)">>
    /\ Len(history) = 3
    /\ history[1].key = "a"
    /\ history[2] = history[3]
    /\ Volume(Engine, Top(history).command) = 90

\* undo() on a history that is not empty, but for what it returns
UndoMoves(returned(_, _)) ==
    history # <<>> =>
        LET entry == Top(history)
            c == entry.command
            u == undo(Engine)
        IN  /\ u.history = DropLast(history)
            /\ u.undo_stack = Append(undo_stack, entry)
            /\ u.key_bindings = key_bindings
            /\ DOMAIN u.heap = DOMAIN heap
            /\ \A o \in DOMAIN heap \ {c} : u.heap[o] = heap[o]
            /\ u.heap[c] = command_undo(Engine, c).heap[c]
            /\ Volume(u, c) = Volume(Engine, c) - Step(Engine, c)
            /\ u.text = command_undo(Engine, c).text
            /\ u.ret = returned(Engine, c)
            /\ Len(history) >= 2 =>
                   /\ undo(u).history = DropLast(DropLast(history))
                   /\ undo(u).undo_stack =
                          undo_stack \o <<entry, history[Len(history) - 1]>>

OperationUndoOutcome(e, c) == command_undo(e, c).ret

LabelledUndoOutcome(e, c) == <<"undo: ">> \o command_undo(e, c).ret

(* C18 as stated: undo with a history that is not empty removes its newest  *)
(* entry only, runs undo() of that entry's command once, puts the entry on  *)
(* top of the undo_stack and returns what the command's undo() returned;    *)
(* two undos revert the two newest entries, newest first.                   *)
C18_UndoReturnsOperationOutcome == UndoMoves(OperationUndoOutcome)

(* C18, amended: the same, but undo returns "undo: " followed by what the   *)
(* command's undo() returned.                                               *)
C18_UndoTransition == UndoMoves(LabelledUndoOutcome)

C18_Witness ==
    /\ last = [op |-> "press", key |-> "undo"]
    /\ Len(undo_stack) = 2 /\ history # <<>>
    /\ undo_stack[1].key = "ctrl++" /\ undo_stack[2].key = "a"
    /\ result = <<"undo: ">> \o text

\* redo() on an undo_stack that is not empty, but for what it returns
RedoMoves(returned(_, _)) ==
    undo_stack # <<>> =>
        LET entry == Top(undo_stack)
            c == entry.command
            r == redo(Engine)
        IN  /\ r.undo_stack = DropLast(undo_stack)
            /\ r.history = Append(history, entry)
            /\ r.key_bindings = key_bindings
            /\ r.heap = execute(Engine, c).heap
            /\ r.text = execute(Engine, c).text
            /\ Volume(r, c) = Volume(Engine, c) + Step(Engine, c)
            /\ r.text = text \o Typed(Engine, c)
            /\ r.ret = returned(Engine, c)

OperationRedoOutcome(e, c) == execute(e, c).ret

LabelledRedoOutcome(e, c) == <<"redo: ">> \o execute(e, c).ret

\* k undos followed by k redos, for k = 1, 2
UndoneAndRedone ==
    /\ Len(history) >= 1 =>
           /\ redo(undo(Engine)).history = history
           /\ redo(undo(Engine)).undo_stack = undo_stack
    /\ Len(history) >= 2 =>
           LET once == redo(undo(undo(Engine)))
               twice == redo(once)
           IN  /\ once.history = DropLast(history)
               /\ once.undo_stack = Append(undo_stack, Top(history))
               /\ twice.history = history
               /\ twice.undo_stack = undo_stack

(* C19 as stated: redo with an undo_stack that is not empty removes its     *)
(* newest entry only, does to that entry's command what execute() does and  *)
(* nothing more, puts the entry back on top of the history and returns the  *)
(* outcome of the command; k redos after k undos re-apply the entries in    *)
(* the order they were first run.                                           *)
C19_RedoReturnsOperationOutcome == RedoMoves(OperationRedoOutcome) /\ UndoneAndRedone

(* C19, amended: the same, but redo returns "redo: " followed by what the   *)
(* command's redo() returned.                                               *)
C19_RedoTransition == RedoMoves(LabelledRedoOutcome) /\ UndoneAndRedone

C19_Witness ==
    /\ last = [op |-> "press", key |-> "redo"]
    /\ undo_stack # <<>> /\ Len(history) = 2
    /\ history[1].key = "a" /\ history[2].key = "ctrl++"
    /\ result = <<"redo: ", "volume increased +", "20", "% (now: ", "70", "%)">>

\* the keys of a table, in the order of the dict
KeySeq(kb) == [i \in 1..Len(kb) |-> kb[i].key]

\* whether every entry of both stacks of e has a key the table binds to a command
StacksBound(e) ==
    \A stack \in {e.history, e.undo_stack} : \A i \in 1..Len(stack) :
        Get(e.key_bindings, stack[i].key) # None

\* whether engine r has the table, text and stack keys of the current engine
SameStructure(r) ==
    /\ Keys(r.key_bindings) = Keys(key_bindings)
    /\ KeySeq(r.key_bindings) = KeySeq(key_bindings)
    /\ \A key \in Keys(key_bindings) :
           LET before == Get(key_bindings, key)
               after == Get(r.key_bindings, key)
           IN  IF before = None
               THEN after = None
               ELSE /\ after # None
                    /\ r.heap[after].cls = heap[before].cls
                    /\ r.heap[after].dict = heap[before].dict
    /\ r.text = text
    /\ StacksBound(Engine) =>
           /\ StackKeys(r.history) = StackKeys(history)
           /\ StackKeys(r.undo_stack) = StackKeys(undo_stack)

(* C20: in every state reached by press, bind, undo and redo, load_state of *)
(* what save_state wrote gives a table with the same keys, None where the   *)
(* key was bound to None and else a command of the same class with equal    *)
(* fields, and the same text; when every key on the stacks has a command,   *)
(* the history and the undo_stack hold the same keys in the same order.     *)
C20_StructuralRoundTrip ==
    LET saved == save_state(Engine, "ok")
    IN  \A target \in {saved, VirtualKeyboard} :
            LET r == load_state(target, saved.file)
            IN  r.ret = True /\ SameStructure(r)

C20_Witness ==
    /\ last.op = "bind"
    /\ Get(key_bindings, "a") # None
    /\ heap[Get(key_bindings, "a")] = PrintCharCommand("b")
    /\ StackKeys(history) = <<"ctrl++">>
    /\ StackKeys(undo_stack) = <<"a">>
    /\ StacksBound(Engine)
    /\ Volume(Engine, Get(key_bindings, "ctrl++")) = 70
    /\ StackKeys(load_state(VirtualKeyboard, save_state(Engine, "ok").file).undo_stack)
           = <<"a">>

\* how many entries of a stack have the key
Count(stack, key) == Cardinality({i \in 1..Len(stack) : stack[i].key = key})

\* the current_volume of the command the table binds the key to
Level(e, key) == e.heap[Get(e.key_bindings, key)].dict.current_volume

(* C21: in every state reached by presses, undo and redo included, the      *)
(* current_volume of the VolumeUpCommand is 50 + 20 * (entries of "ctrl++"  *)
(* in the history) and that of the VolumeDownCommand is 50 - 20 * (entries  *)
(* of "ctrl+-" in the history); a press of one leaves the other as it is,   *)
(* and no press stops at 100 or at 0.                                       *)
C21_VolumeLevels ==
    /\ Level(Engine, "ctrl++")
           = DefaultVolume + DefaultAmount * Count(history, "ctrl++")
    /\ Level(Engine, "ctrl+-")
           = DefaultVolume - DefaultAmount * Count(history, "ctrl+-")
    /\ LET up == press_key(Engine, "ctrl++")
           down == press_key(Engine, "ctrl+-")
       IN  /\ Level(up, "ctrl+-") = Level(Engine, "ctrl+-")
           /\ Level(down, "ctrl++") = Level(Engine, "ctrl++")
           /\ Level(up, "ctrl++") = Level(Engine, "ctrl++") + DefaultAmount
           /\ Level(down, "ctrl+-") = Level(Engine, "ctrl+-") - DefaultAmount

C21_Witness ==
    /\ last = [op |-> "press", key |-> "redo"]
    /\ Count(history, "ctrl++") = 3
    /\ Level(Engine, "ctrl++") = 110
    /\ Level(Engine, "ctrl+-") = 50
    /\ Level(press_key(press_key(press_key(VirtualKeyboard, "ctrl+-"), "ctrl+-"),
                       "ctrl+-"), "ctrl+-") = 0 - 10

\* a sequence from its last element to its first
Reverse(seq) == [i \in 1..Len(seq) |-> seq[Len(seq) + 1 - i]]

\* the history, oldest first, followed by the undo_stack, newest first
Timeline(e) == e.history \o Reverse(e.undo_stack)

(* C22: the history followed by the undo_stack read from its newest entry   *)
(* to its oldest is the same sequence of entries before and after every     *)
(* undo and every redo; a press of an unknown key, a bind_key and a save    *)
(* leave it as it is too, so only a press that runs a command, or a load,   *)
(* changes it.                                                              *)
C22_HistoryConserved ==
    /\ Timeline(undo(Engine)) = Timeline(Engine)
    /\ Timeline(redo(Engine)) = Timeline(Engine)
    /\ \A key \in Reserved : Timeline(press_key(Engine, key)) = Timeline(Engine)
    /\ Timeline(redo(undo(Engine))) = Timeline(Engine)
    /\ Timeline(undo(redo(Engine))) = Timeline(Engine)
    /\ \A key \in AllKeys \ Reserved :
           press_key(Engine, key).ret = Unknown(key)
               => Timeline(press_key(Engine, key)) = Timeline(Engine)
    /\ \A key \in AllKeys :
           /\ Timeline(bind_key(Engine, key, None)) = Timeline(Engine)
           /\ Timeline(bind_new(Engine, key, MediaPlayerCommand(FALSE)))
                  = Timeline(Engine)
    /\ \A io \in SaveOutcomes : Timeline(save_state(Engine, io)) = Timeline(Engine)

C22_Witness ==
    /\ last = [op |-> "press", key |-> "undo"]
    /\ Head(result) = "undo: "
    /\ history # <<>> /\ undo_stack # <<>>
    /\ Len(Timeline(Engine)) = 2
    /\ Timeline(redo(Engine)) = Timeline(Engine)
    /\ redo(Engine).history # history

(* C23 as stated: in every state reached by presses, a press that runs a    *)
(* command, whatever its class, followed at once by undo leaves the text,   *)
(* the fields of every command (is_playing included) and the history as     *)
(* they were before the press.                                              *)
C23_UndoInvertsPress ==
    \A key \in AllKeys \ Reserved :
        LET pressed == press_key(Engine, key)
            undone == undo(pressed)
        IN  pressed.ret # Unknown(key) =>
               /\ undone.text = text
               /\ undone.history = history
               /\ \A c \in DOMAIN heap : undone.heap[c] = heap[c]

\* press_key(key) on engine e returns "Unknown key" exactly when the key is
\* not reserved, has no command in the table and is not one character long
UnknownExactly(e, key) ==
    press_key(e, key).ret = Unknown(key)
        <=> /\ key \notin Reserved
            /\ Get(e.key_bindings, key) = None
            /\ KeyLen(key) # 1

(* C24: press_key returns "Unknown key" if and only if the key is not undo  *)
(* or redo, the table has no command for it (absent, or bound to None) and  *)
(* its length is not 1; a one-character key bound to None is pressed like   *)
(* an absent one: a new PrintCharCommand replaces the None and is executed. *)
C24_UnknownExactly ==
    /\ \A key \in AllKeys :
           /\ UnknownExactly(Engine, key)
           /\ UnknownExactly(bind_key(Engine, key, None), key)
           /\ UnknownExactly(bind_new(Engine, key, MediaPlayerCommand(FALSE)), key)
    /\ \A key \in AllKeys \ Reserved :
           KeyLen(key) = 1 =>
               LET unbound == bind_key(Engine, key, None)
                   e == press_key(unbound, key)
                   command == Get(e.key_bindings, key)
               IN  /\ command \notin DOMAIN heap \cup {None}
                   /\ e.heap[command] = PrintCharCommand(key)
                   /\ e.key_bindings = Put(unbound.key_bindings, key, command)
                   /\ e.text = Append(text, key)
                   /\ e.history = Append(history, [key |-> key, command |-> command])
                   /\ e.ret = e.text

C24_Witness ==
    /\ last = [op |-> "press", key |-> "a"]
    /\ result = text
    /\ Len(history) = 2
    /\ history[1].key = "a" /\ history[2].key = "a"
    /\ history[1].command # history[2].command
    /\ history[2].command = Get(key_bindings, "a")
    /\ heap[Get(key_bindings, "a")] = PrintCharCommand("a")
    /\ text = <<"a", "a">>

\* the text, objects, table and stacks of e, the objects numbered in the
\* order of their first reference
Memory(e) ==
    LET f == Renumber(e)
    IN  <<f.text, f.heap, f.key_bindings, f.history, f.undo_stack>>

(* C25: after a load_state that returns True the text, the table and both   *)
(* stacks are what the snapshot says and nothing else: the engine equals a  *)
(* default engine that loaded the same snapshot, the table has the keys of  *)
(* the snapshot only, no entry holds a command of the stacks of before, and *)
(* a snapshot without history or undo_stack gives an empty stack.           *)
C25_LoadReplacesEverything ==
    \A content \in {file} \cup DamagedFiles \cup PartialFiles \cup ExternalFiles :
        LET r == load_state(Engine, content)
            fresh == load_state(VirtualKeyboard, content)
            state == content.state
        IN  r.ret = True =>
               /\ fresh.ret = True
               /\ Memory(r) = Memory(fresh)
               /\ r.text = state.text
               /\ KeySeq(r.key_bindings)
                      = KeySeq(StateGet(state, "key_bindings", <<>>))
               /\ Shared(r)
               /\ Live(r) \cap (Refs(history) \cup Refs(undo_stack)) = {}
               /\ "history" \notin DOMAIN state => r.history = <<>>
               /\ "undo_stack" \notin DOMAIN state => r.undo_stack = <<>>

C25_Witness ==
    /\ last = [op |-> "load", key |-> "json"]
    /\ result = True
    /\ text = <<"b">>
    /\ KeySeq(key_bindings) = <<"b">>
    /\ history = <<>> /\ undo_stack = <<>>
    /\ file.kind = "json" /\ file.state.history # <<>>

====
